---- MODULE Spec2Model ----
(***************************************************************************)
(* Agent admission control and hierarchy tracking of the orchestrator MCP  *)
(* server: the per-task AGENT_REGISTRY.json, the GLOBAL_REGISTRY.json, the *)
(* tmux sessions and the ledgers, driven by the tool handlers              *)
(* create_real_task, deploy_headless_agent, update_agent_progress,         *)
(* report_agent_finding, get_agent_output, kill_real_agent and             *)
(* get_real_task_status.                                                   *)
(*                                                                         *)
(* Every handler is an async function: it runs to its next await, where    *)
(* other handlers may run.  A handler invocation is a process in Procs     *)
(* whose position is pc[p]; one action is one run between two awaits that  *)
(* touch shared state (a registry file, the ledger, the tmux server).      *)
(* Awaits that only touch a handler's private files are folded into the    *)
(* step that follows them.                                                 *)
(***************************************************************************)
EXTENDS Integers, Sequences, FiniteSets, TLC

\* ---------------------------------------------------------------- bounds
MaxTasks == 2
MaxAgentIds == 3
\* number of handler invocations in a behaviour
MaxCalls == 3
\* the same, for the behaviours of SpecLong
MaxCallsLong == 5
MaxCallsReports == 4
\* number of lines in the ledgers (progress and findings files)
MaxLog == 2

\* number of lines in the two ledger files of SpecLedger, and the timestamps
\* their entries carry
MaxLines == 3
MaxTime == 2
\* length of recent_updates and recent_findings: slice(0, 10) and slice(0, 5),
\* scaled to the ledgers of MaxLines lines
RecentUpdates == 2
RecentFindings == 1

\* values of the environment variables read at task creation
EnvMaxConcurrent == 1
EnvMaxAgents == 2
EnvMaxDepth == 1

Procs == {"p1", "p2"}
TaskIds == 1..MaxTasks
AgentIds == 1..MaxAgentIds
AgentTypes == {"worker"}
\* the (status, progress) pairs update_agent_progress is called with
ProgressReports ==
    {<<"working", 50>>, <<"working", 100>>, <<"completed", 100>>, <<"running", 100>>}

\* ------------------------------------------------------------- constants
\* parent: z.string().default('orchestrator'); agent ids are numbered from 1
Orchestrator == 0
\* a field that a JSON document does not have (undefined): no number a counter takes
Absent == -1000
\* an id that names no agent: agent ids are generated, a caller can pass any string
UnknownAgent == MaxAgentIds + 1
\* no file at the path
NoFile == [exists |-> FALSE]

VARIABLES
    registry,      \* task id -> last completely written AGENT_REGISTRY.json, or NoFile
    torn,          \* task id -> the file was truncated by a write that has not finished
    global,        \* GLOBAL_REGISTRY.json, or NoFile
    sessions,      \* tmux sessions that exist (named by agent id)
    started,       \* sessions that createTmuxSession ever started
    progressLog,   \* task id -> agent id -> the lines of progress/<agent>_progress.jsonl
    findingsLog,   \* task id -> agent id -> the lines of findings/<agent>_findings.jsonl
    nextTask,      \* number of task ids generated
    nextId,        \* number of agent ids generated
    pc,            \* process -> position in its handler
    arg,           \* process -> the handler's input and locals
    loc,           \* process -> the handler's in-memory copy of a registry document
    ret,           \* the last handler that returned: its call and its result
    calls,         \* number of handler invocations so far
    succ,          \* task id -> number of deploy_headless_agent calls that returned success
    known,         \* the task ids that create_real_task has returned to a caller
    deployed,      \* the <<task, agent>> pairs of the deploys that returned success
    view           \* the ledger texts and the last view computed from them (SpecLedger)

vars == <<registry, torn, global, sessions, started, progressLog, findingsLog, nextTask, nextId,
          pc, arg, loc, ret, calls, succ, known, deployed, view>>

\* ------------------------------------------------------------- documents
\* readJsonFile's fallback {} : every field undefined (the hierarchy: no child list)
EmptyDoc ==
    [exists |-> TRUE, agents |-> <<>>, total_spawned |-> Absent, active_count |-> Absent,
     completed_count |-> Absent, max_agents |-> Absent, max_concurrent |-> Absent,
     max_depth |-> Absent, agent_hierarchy |-> [parent \in {} |-> <<>>]]

\* the document create_real_task writes
InitialDoc ==
    [exists |-> TRUE, agents |-> <<>>, total_spawned |-> 0, active_count |-> 0,
     completed_count |-> 0, max_agents |-> EnvMaxAgents, max_concurrent |-> EnvMaxConcurrent,
     max_depth |-> EnvMaxDepth, agent_hierarchy |-> [parent \in {Orchestrator} |-> <<>>]]

InitialGlobal ==
    [exists |-> TRUE, total_tasks |-> 0, active_tasks |-> 0, total_agents_spawned |-> 0,
     active_agents |-> 0, max_concurrent_agents |-> EnvMaxConcurrent, tasks |-> {}]

\* what a handler returns: the result text with the numbers and the registry
\* snapshot that the payload carries, and the call (op, task, agent) it answers
Result(text, op, t, a) ==
    [text |-> text, op |-> op, task |-> t, agent |-> a, current |-> 0, ceiling |-> 0,
     doc |-> NoFile]

NoResult == Result("none", "none", 0, 0)

\* the two ledger files before anything is written (their text, and the
\* entries the handlers have appended to them), no view computed
NoView ==
    [progress |-> <<>>, findings |-> <<>>, wroteProgress |-> <<>>, wroteFindings |-> <<>>,
     out |-> [of |-> "none"]]

NoArg ==
    [op |-> "none", task |-> 0, agent |-> 0, type |-> "lead", parent |-> Orchestrator,
     depth |-> 0, status |-> "working", progress |-> 0, idx |-> 0, changed |-> FALSE,
     gone |-> {}]

\* Number(x || 0)
NumOr0(x) == IF x = Absent THEN 0 ELSE x
\* Number(x ?? env)
NumOrEnv(x, env) == IF x = Absent THEN env ELSE x
\* Math.max(0, n)
Max0(n) == IF n < 0 THEN 0 ELSE n

\* number of lines in the files of one task's ledger, for the agents 1..n
RECURSIVE Lines(_, _)
Lines(files, n) == IF n = 0 THEN 0 ELSE Len(files[n]) + Lines(files, n - 1)

\* number of lines in the ledgers of tasks 1..n
RECURSIVE LogSize(_)
LogSize(n) ==
    IF n = 0 THEN 0
    ELSE Lines(progressLog[n], MaxAgentIds) + Lines(findingsLog[n], MaxAgentIds) + LogSize(n - 1)

fileExists(t) == registry[t] # NoFile

\* readJsonFile(registryPath, {}): a file that is being rewritten does not parse
readJsonFile(t) == IF torn[t] THEN EmptyDoc ELSE registry[t]

\* index of the first agent of doc with this id, 0 when there is none
FindAgent(doc, a) ==
    IF \E i \in 1..Len(doc.agents) : doc.agents[i].id = a
    THEN CHOOSE i \in 1..Len(doc.agents) :
            /\ doc.agents[i].id = a
            /\ \A j \in 1..(i - 1) : doc.agents[j].id # a
    ELSE 0

\* let depth = parent === 'orchestrator' ? 1 : 2; for (a of agents) if (a.id === parent) depth = a.depth + 1
ComputeDepth(doc, parent) ==
    LET i == FindAgent(doc, parent)
    IN  IF i # 0 THEN doc.agents[i].depth + 1
        ELSE IF parent = Orchestrator THEN 1 ELSE 2

\* the loop probes the agents that are completed as well
NextRunningOrCompleted(doc, i) ==
    IF \E j \in i..Len(doc.agents) : doc.agents[j].status \in {"running", "completed"}
    THEN CHOOSE j \in i..Len(doc.agents) :
            /\ doc.agents[j].status \in {"running", "completed"}
            /\ \A k \in i..(j - 1) : doc.agents[k].status \notin {"running", "completed"}
    ELSE Len(doc.agents) + 1

\* index of the first agent at or after i that the reconciliation loop probes
NextRunning(doc, i) ==
    IF \E j \in i..Len(doc.agents) : doc.agents[j].status = "running"
    THEN CHOOSE j \in i..Len(doc.agents) :
            /\ doc.agents[j].status = "running"
            /\ \A k \in i..(j - 1) : doc.agents[k].status # "running"
    ELSE Len(doc.agents) + 1

Init ==
    /\ registry = [t \in TaskIds |-> NoFile]
    /\ torn = [t \in TaskIds |-> FALSE]
    /\ global = NoFile
    /\ sessions = {}
    /\ started = {}
    /\ progressLog = [t \in TaskIds |-> [a \in AgentIds |-> <<>>]]
    /\ findingsLog = [t \in TaskIds |-> [a \in AgentIds |-> <<>>]]
    /\ nextTask = 0
    /\ nextId = 0
    /\ pc = [p \in Procs |-> "idle"]
    /\ arg = [p \in Procs |-> NoArg]
    /\ loc = [p \in Procs |-> NoFile]
    /\ ret = NoResult
    /\ calls = 0
    /\ succ = [t \in TaskIds |-> 0]
    /\ known = {}
    /\ deployed = {}
    /\ view = NoView

\* A handler is invoked.  Which process runs an invocation is only a name: a
\* new invocation takes the first process that is idle.
Invoke(p) ==
    /\ pc[p] = "idle"
    /\ p = "p1" \/ pc["p1"] # "idle"
    /\ calls' = calls + 1

\* a handler returns r
Return(p, r) ==
    /\ pc' = [pc EXCEPT ![p] = "idle"]
    /\ ret' = r
    /\ arg' = [arg EXCEPT ![p] = NoArg]
    /\ loc' = [loc EXCEPT ![p] = NoFile]

\* ------------------------------------------------------ create_real_task
\* ensureWorkspace: if (!(await fileExists(globalPath))) ...  The task id is
\* drawn here: ids are unique names, whenever they are generated.
CreateTask(p) ==
    /\ Invoke(p)
    /\ nextTask' = nextTask + 1
    /\ pc' = [pc EXCEPT ![p] = IF global = NoFile THEN "create_init" ELSE "create_registry"]
    /\ arg' = [arg EXCEPT ![p] = [NoArg EXCEPT !.op = "create", !.task = nextTask + 1]]
    /\ UNCHANGED <<registry, torn, global, sessions, started, progressLog, findingsLog,
                   nextId, loc, ret, succ, known, deployed, view>>

\* ensureWorkspace: await writeJsonFile(globalPath, initial)
CreateInitGlobal(p) ==
    /\ pc[p] = "create_init"
    /\ global' = InitialGlobal
    /\ pc' = [pc EXCEPT ![p] = "create_registry"]
    /\ UNCHANGED <<registry, torn, sessions, started, progressLog, findingsLog, nextTask, deployed, view, nextId,
                   arg, loc, ret, succ, calls, known>>

\* await writeJsonFile(path.join(workspace, 'AGENT_REGISTRY.json'), {...})
CreateRegistry(p) ==
    /\ pc[p] = "create_registry"
    /\ registry' = [registry EXCEPT ![arg[p].task] = InitialDoc]
    /\ pc' = [pc EXCEPT ![p] = "create_read"]
    /\ UNCHANGED <<torn, global, sessions, started, progressLog, findingsLog, nextTask, deployed, view, nextId,
                   arg, loc, ret, succ, calls, known>>

\* const globalReg = await readJsonFile(globalPath, {...})
CreateReadGlobal(p) ==
    /\ pc[p] = "create_read"
    /\ loc' = [loc EXCEPT ![p] = global]
    /\ pc' = [pc EXCEPT ![p] = "create_write"]
    /\ UNCHANGED <<registry, torn, global, sessions, started, progressLog, findingsLog, nextTask, deployed, view, nextId,
                   arg, ret, succ, calls, known>>

\* total_tasks + 1, active_tasks + 1, tasks[taskId] = {...}; writeJsonFile(globalPath, globalReg)
CreateWriteGlobal(p) ==
    /\ pc[p] = "create_write"
    /\ global' = [loc[p] EXCEPT !.total_tasks = @ + 1, !.active_tasks = @ + 1,
                                !.tasks = @ \cup {arg[p].task}]
    /\ known' = known \cup {arg[p].task}
    /\ Return(p, Result("INITIALIZED", "create", arg[p].task, 0))
    /\ UNCHANGED <<registry, torn, sessions, started, progressLog, findingsLog, nextTask, deployed, view, nextId, succ, calls>>

\* ------------------------------------------------- deploy_headless_agent
TooManyActiveOffByOne(active, maxConcurrent) == active > maxConcurrent

\* if (active >= maxConcurrent) return 'Too many active agents'
TooManyActive(active, maxConcurrent) == active >= maxConcurrent

\* if (totalSpawned >= maxAgents) return 'Max agents reached'
MaxAgentsReached(totalSpawned, maxAgents) == totalSpawned >= maxAgents

\* the count reported is the one the request would have brought about
LimitExceededCountsRequest(text, t, current, ceiling) ==
    [Result(text, "deploy", t, 0) EXCEPT !.current = current + 1, !.ceiling = ceiling]

\* error: `Too many active agents (${active}/${maxConcurrent})`,
\* error: `Max agents reached (${totalSpawned}/${maxAgents})`
LimitExceeded(text, t, current, ceiling) ==
    [Result(text, "deploy", t, 0) EXCEPT !.current = current, !.ceiling = ceiling]

\* a session is started before the call is turned down
DenyAfterSession(p, r) ==
    /\ Return(p, r)
    /\ sessions' = sessions \cup {nextId + 1}
    /\ started' = started \cup {nextId + 1}
    /\ UNCHANGED nextId

\* return [{ ... success: false, error }] before anything is created
Deny(p, r) ==
    /\ Return(p, r)
    /\ UNCHANGED <<nextId, sessions, started>>

\* checkTmuxAvailable, fileExists, readJsonFile, the two admission checks, the
\* agent id and the depth: everything up to the first await after the read.
DeployStart(p, t, type, parent, tmuxAvailable) ==
    /\ Invoke(p)
    /\ LET reg == readJsonFile(t)
           active == NumOr0(reg.active_count)
           maxConcurrent == NumOrEnv(reg.max_concurrent, EnvMaxConcurrent)
           totalSpawned == NumOr0(reg.total_spawned)
           maxAgents == NumOrEnv(reg.max_agents, EnvMaxAgents)
       IN  IF ~tmuxAvailable THEN
               Deny(p, Result("TmuxUnavailable", "deploy", t, 0))
           ELSE IF ~fileExists(t) THEN
               Deny(p, Result("TaskNotFound", "deploy", t, 0))
           ELSE IF TooManyActive(active, maxConcurrent) THEN
               Deny(p, LimitExceeded("TooManyActive", t, active, maxConcurrent))
           ELSE IF MaxAgentsReached(totalSpawned, maxAgents) THEN
               Deny(p, LimitExceeded("MaxAgentsReached", t, totalSpawned, maxAgents))
           ELSE
               /\ nextId < MaxAgentIds
               /\ nextId' = nextId + 1
               /\ pc' = [pc EXCEPT ![p] = "deploy_session"]
               /\ arg' = [arg EXCEPT ![p] =
                            [NoArg EXCEPT !.op = "deploy", !.task = t, !.agent = nextId + 1,
                                          !.type = type, !.parent = parent,
                                          !.depth = ComputeDepth(reg, parent)]]
               /\ loc' = [loc EXCEPT ![p] = reg]
               /\ UNCHANGED <<ret, sessions, started>>
    /\ UNCHANGED <<registry, torn, global, progressLog, findingsLog, nextTask, deployed, view, succ, known>>

\* registry.agents.push(agentEntry); total_spawned + 1; active_count + 1
AppendAgent(doc, a) ==
    [doc EXCEPT !.agents = Append(@, [id |-> a.agent, type |-> a.type, parent |-> a.parent,
                                      depth |-> a.depth, status |-> "running",
                                      progress |-> 0, tmux_session |-> a.agent]),
                !.total_spawned = NumOr0(@) + 1,
                !.active_count = NumOr0(@) + 1]

\* the handler goes on to record the agent whether or not the session started
DeploySessionUnchecked(p, ok) ==
    /\ pc[p] = "deploy_session"
    /\ sessions' = IF ok THEN sessions \cup {arg[p].agent} ELSE sessions
    /\ started' = IF ok THEN started \cup {arg[p].agent} ELSE started
    /\ loc' = [loc EXCEPT ![p] = AppendAgent(loc[p], arg[p])]
    /\ pc' = [pc EXCEPT ![p] = "write"]
    /\ UNCHANGED <<registry, torn, global, progressLog, findingsLog, nextTask, deployed, view, nextId, arg, ret, succ, calls, known>>

\* const tmux = await createTmuxSession(...): the session starts or it does not
DeploySession(p, ok) ==
    /\ pc[p] = "deploy_session"
    /\ IF ok THEN
           /\ sessions' = sessions \cup {arg[p].agent}
           /\ started' = started \cup {arg[p].agent}
           /\ loc' = [loc EXCEPT ![p] = AppendAgent(loc[p], arg[p])]
           /\ pc' = [pc EXCEPT ![p] = "write"]
           /\ UNCHANGED <<arg, ret>>
       ELSE
           /\ Return(p, Result("SessionCreationFailure", "deploy", arg[p].task, arg[p].agent))
           /\ UNCHANGED <<sessions, started>>
    /\ UNCHANGED <<registry, torn, global, progressLog, findingsLog, nextTask, deployed, view, nextId, succ, calls, known>>

\* ---------------------------------------------------------- spawn_child_agent
\* the parent is left to the default of the deploy schema
MappedToOrchestrator(input) ==
    [task_id |-> input.task_id, agent_type |-> input.child_agent_type, parent |-> Orchestrator]

\* const mapped = { task_id, agent_type: child_agent_type, prompt: child_prompt,
\*                  parent: parent_agent_id }
Mapped(input) ==
    [task_id |-> input.task_id, agent_type |-> input.child_agent_type,
     parent |-> input.parent_agent_id]

\* the inputs of spawn_child_agent
SpawnInputs(tasks, parents) ==
    [task_id : tasks, child_agent_type : AgentTypes, parent_agent_id : parents]

\* return deploy.handler(deployHeadlessAgentSchema.parse(mapped))
SpawnChildStart(p, input, tmuxAvailable) ==
    DeployStart(p, Mapped(input).task_id, Mapped(input).agent_type, Mapped(input).parent,
                tmuxAvailable)

\* ------------------------------------------------------------ writeJsonFile
\* fs.writeFile opens the file with flag 'w', which truncates it ...
WriteTruncate(p) ==
    /\ pc[p] = "write"
    /\ torn' = [torn EXCEPT ![arg[p].task] = TRUE]
    /\ pc' = [pc EXCEPT ![p] = "write_data"]
    /\ UNCHANGED <<registry, global, sessions, started, progressLog, findingsLog, nextTask, deployed, view, nextId,
                   arg, loc, ret, succ, calls, known>>

\* the result text of the handler whose write has finished
ResultOf(op) ==
    CASE op = "deploy" -> "deployed"
      [] op = "update" -> "updated"
      [] op = "kill" -> "terminated"
      [] OTHER -> "status"

\* ... and then writes the document; the handler returns its success payload
WriteData(p) ==
    /\ pc[p] = "write_data"
    /\ registry' = [registry EXCEPT ![arg[p].task] = loc[p]]
    /\ torn' = [torn EXCEPT ![arg[p].task] = FALSE]
    /\ succ' = IF arg[p].op = "deploy" THEN [succ EXCEPT ![arg[p].task] = @ + 1] ELSE succ
    /\ deployed' = IF arg[p].op = "deploy" THEN deployed \cup {<<arg[p].task, arg[p].agent>>}
                   ELSE deployed
    /\ Return(p, [Result(ResultOf(arg[p].op), arg[p].op, arg[p].task, arg[p].agent)
                     EXCEPT !.doc = IF arg[p].op = "status" THEN loc[p] ELSE NoFile])
    /\ UNCHANGED <<global, sessions, started, progressLog, findingsLog, nextTask, view, nextId,
                   calls, known>>

\* ---------------------------------------------------------- kill_real_agent
\* fileExists, readJsonFile, registry.agents.find
KillStart(p, t, a) ==
    /\ Invoke(p)
    /\ IF ~fileExists(t) THEN
           Return(p, Result("TaskNotFound", "kill", t, a))
       ELSE IF FindAgent(readJsonFile(t), a) = 0 THEN
           Return(p, Result("AgentNotFound", "kill", t, a))
       ELSE
           /\ pc' = [pc EXCEPT ![p] = "kill_session"]
           /\ arg' = [arg EXCEPT ![p] = [NoArg EXCEPT !.op = "kill", !.task = t, !.agent = a]]
           /\ loc' = [loc EXCEPT ![p] = readJsonFile(t)]
           /\ UNCHANGED ret
    /\ UNCHANGED <<registry, torn, global, sessions, started, progressLog, findingsLog, nextTask, deployed, view, nextId, succ, known>>

\* the decrement without its floor at 0
MarkTerminatedNoFloor(doc, a) ==
    [doc EXCEPT !.agents[FindAgent(doc, a)].status = "terminated",
                !.active_count = NumOr0(@) - 1]

\* agent.status = 'terminated'; active_count = Math.max(0, active_count - 1)
MarkTerminated(doc, a) ==
    [doc EXCEPT !.agents[FindAgent(doc, a)].status = "terminated",
                !.active_count = Max0(NumOr0(@) - 1)]

\* the handler goes on only when the session was killed
KillSessionAwaitsDeath(p, killed) ==
    /\ pc[p] = "kill_session"
    /\ killed
    /\ loc[p].agents[FindAgent(loc[p], arg[p].agent)].tmux_session \in sessions
    /\ sessions' = sessions \ {loc[p].agents[FindAgent(loc[p], arg[p].agent)].tmux_session}
    /\ loc' = [loc EXCEPT ![p] = MarkTerminated(loc[p], arg[p].agent)]
    /\ pc' = [pc EXCEPT ![p] = "write"]
    /\ UNCHANGED <<registry, torn, global, started, progressLog, findingsLog, nextTask, deployed, view, nextId,
                   arg, ret, succ, calls, known>>

\* if (sessionName && (await checkTmuxSessionExists(sessionName))) killed = await killTmuxSession(sessionName)
\* then the agent is marked in the handler's copy of the registry
KillSession(p, killed) ==
    /\ pc[p] = "kill_session"
    /\ LET s == loc[p].agents[FindAgent(loc[p], arg[p].agent)].tmux_session
       IN  /\ s \notin sessions => ~killed
           /\ sessions' = IF killed THEN sessions \ {s} ELSE sessions
    /\ loc' = [loc EXCEPT ![p] = MarkTerminated(loc[p], arg[p].agent)]
    /\ pc' = [pc EXCEPT ![p] = "write"]
    /\ UNCHANGED <<registry, torn, global, started, progressLog, findingsLog, nextTask, deployed, view, nextId, arg, ret, succ, calls, known>>

\* ------------------------------------------------------------------ ledger
\* the file is replaced by the new line
OverwriteLine(file, entry) == <<entry>>

\* fs.appendFileSync(file, JSON.stringify(entry) + '\n')
AppendLine(file, entry) == Append(file, entry)

\* ---------------------------------------------------- update_agent_progress
\* fileExists, then fs.appendFileSync(progressFile, JSON.stringify(entry) + '\n')
UpdateStart(p, t, a, status, progress) ==
    /\ Invoke(p)
    /\ IF ~fileExists(t) THEN
           /\ Return(p, Result("TaskNotFound", "update", t, a))
           /\ UNCHANGED progressLog
       ELSE
           /\ LogSize(MaxTasks) < MaxLog
           /\ progressLog' = [progressLog EXCEPT ![t][a] =
                  AppendLine(@, [agent_id |-> a, status |-> status, progress |-> progress])]
           /\ pc' = [pc EXCEPT ![p] = "update_read"]
           /\ arg' = [arg EXCEPT ![p] = [NoArg EXCEPT !.op = "update", !.task = t, !.agent = a,
                                                      !.status = status, !.progress = progress]]
           /\ UNCHANGED <<loc, ret>>
    /\ UNCHANGED <<registry, torn, global, sessions, started, findingsLog, nextTask, deployed, view, nextId,
                   succ, known>>

\* for (agent of agents) if (agent.id === input.agent_id) { agent.status = input.status; agent.progress = input.progress; break }
SetProgress(doc, a, status, progress) ==
    LET i == FindAgent(doc, a)
    IN  IF i = 0 THEN doc
        ELSE [doc EXCEPT !.agents[i].status = status, !.agents[i].progress = progress]

\* const registry = await readJsonFile(registryPath, {}); the loop over its agents
UpdateRead(p) ==
    /\ pc[p] = "update_read"
    /\ loc' = [loc EXCEPT ![p] = SetProgress(readJsonFile(arg[p].task), arg[p].agent,
                                             arg[p].status, arg[p].progress)]
    /\ pc' = [pc EXCEPT ![p] = "write"]
    /\ UNCHANGED <<registry, torn, global, sessions, started, progressLog, findingsLog, nextTask, deployed, view, nextId,
                   arg, ret, succ, calls, known>>

\* ---------------------------------------------------- report_agent_finding
\* the line is appended before the handler looks for the task
ReportStartAppendsFirst(p, t, a) ==
    /\ Invoke(p)
    /\ LogSize(MaxTasks) < MaxLog
    /\ findingsLog' = [findingsLog EXCEPT ![t][a] = Append(@, [agent_id |-> a])]
    /\ Return(p, Result(IF fileExists(t) THEN "reported" ELSE "TaskNotFound", "report", t, a))
    /\ UNCHANGED <<registry, torn, global, sessions, started, progressLog, nextTask, deployed, view, nextId,
                   succ, known>>

\* fileExists, then fs.appendFileSync(findingsFile, JSON.stringify(entry) + '\n');
\* the coordination status that the payload carries is only read
ReportStart(p, t, a) ==
    /\ Invoke(p)
    /\ IF ~fileExists(t) THEN
           /\ Return(p, Result("TaskNotFound", "report", t, a))
           /\ UNCHANGED findingsLog
       ELSE
           /\ LogSize(MaxTasks) < MaxLog
           /\ findingsLog' = [findingsLog EXCEPT ![t][a] = AppendLine(@, [agent_id |-> a])]
           /\ Return(p, Result("reported", "report", t, a))
    /\ UNCHANGED <<registry, torn, global, sessions, started, progressLog, nextTask, deployed, view, nextId,
                   succ, known>>

\* --------------------------------------------------------- get_agent_output
\* fileExists, readJsonFile, registry.agents.find, checkTmuxSessionExists,
\* getTmuxSessionOutput: nothing is written (every agent entry has a tmux_session)
OutputStart(p, t, a) ==
    /\ Invoke(p)
    /\ IF ~fileExists(t) THEN
           Return(p, Result("TaskNotFound", "output", t, a))
       ELSE IF FindAgent(readJsonFile(t), a) = 0 THEN
           Return(p, Result("AgentNotFound", "output", t, a))
       ELSE IF readJsonFile(t).agents[FindAgent(readJsonFile(t), a)].tmux_session \in sessions THEN
           Return(p, Result("output_running", "output", t, a))
       ELSE
           Return(p, Result("output_terminated", "output", t, a))
    /\ UNCHANGED <<registry, torn, global, sessions, started, progressLog, findingsLog,
                   nextTask, deployed, view, nextId, succ, known>>

\* ------------------------------------------------------ get_real_task_status
\* fileExists, readJsonFile; the loop runs to its first checkTmuxSessionExists
StatusStart(p, t) ==
    /\ Invoke(p)
    /\ IF ~fileExists(t) THEN
           Return(p, Result("TaskNotFound", "status", t, 0))
       ELSE IF NextRunning(readJsonFile(t), 1) > Len(readJsonFile(t).agents) THEN
           Return(p, [Result("status", "status", t, 0) EXCEPT !.doc = readJsonFile(t)])
       ELSE
           /\ pc' = [pc EXCEPT ![p] = "status_probe"]
           /\ arg' = [arg EXCEPT ![p] = [NoArg EXCEPT !.op = "status", !.task = t,
                                                      !.idx = NextRunning(readJsonFile(t), 1),
                                                      !.gone = started \ sessions]]
           /\ loc' = [loc EXCEPT ![p] = readJsonFile(t)]
           /\ UNCHANGED ret
    /\ UNCHANGED <<registry, torn, global, sessions, started, progressLog, findingsLog, nextTask, deployed, view, nextId, succ, known>>

\* agent.status = 'completed'; active_count = Math.max(0, active_count - 1); completed_count + 1
MarkCompleted(doc, i) ==
    [doc EXCEPT !.agents[i].status = "completed",
                !.active_count = Max0(NumOr0(@) - 1),
                !.completed_count = NumOr0(@) + 1]

\* const exists = await checkTmuxSessionExists(agent.tmux_session); the loop
\* runs on to the next probe, or to if (changed) await writeJsonFile(...)
StatusProbe(p) ==
    /\ pc[p] = "status_probe"
    /\ LET i == arg[p].idx
           gone == loc[p].agents[i].tmux_session \notin sessions
           doc == IF gone THEN MarkCompleted(loc[p], i) ELSE loc[p]
           changed == arg[p].changed \/ gone
           next == NextRunning(doc, i + 1)
       IN  IF next <= Len(doc.agents) THEN
               /\ loc' = [loc EXCEPT ![p] = doc]
               /\ arg' = [arg EXCEPT ![p].idx = next, ![p].changed = changed]
               /\ UNCHANGED <<pc, ret>>
           ELSE IF changed THEN
               /\ loc' = [loc EXCEPT ![p] = doc]
               /\ arg' = [arg EXCEPT ![p].idx = next, ![p].changed = changed]
               /\ pc' = [pc EXCEPT ![p] = "write"]
               /\ UNCHANGED ret
           ELSE
               Return(p, [Result("status", "status", arg[p].task, 0) EXCEPT !.doc = doc])
    /\ UNCHANGED <<registry, torn, global, sessions, started, progressLog, findingsLog, nextTask, deployed, view, nextId, succ, calls, known>>

\* ------------------------------------------------------------ readResource
\* the resources a client can read: tasks://list, task://{id}/status and
\* task://{id}/progress-timeline
ResourceKinds == {"tasks", "status", "timeline"}

\* the status resource marks the first running agent whose session is gone
\* as completed, in the file
ReadResourceReconciles(p, kind, t) ==
    /\ Invoke(p)
    /\ Return(p, Result("resource", "resource", t, 0))
    /\ registry' =
           IF /\ kind = "status" /\ fileExists(t) /\ ~torn[t]
              /\ NextRunning(registry[t], 1) <= Len(registry[t].agents)
              /\ registry[t].agents[NextRunning(registry[t], 1)].tmux_session \notin sessions
           THEN [registry EXCEPT ![t] = MarkCompleted(@, NextRunning(@, 1))]
           ELSE registry
    /\ UNCHANGED <<torn, global, sessions, started, progressLog, findingsLog, nextTask,
                   deployed, view, nextId, succ, known>>

\* readResource(uri): the global registry as it is; computeTaskStatus
\* (fileExists, readJsonFile, the ledgers; no session is probed); or
\* computeTaskTimeline (the ledgers only, whether or not the task exists)
ReadResource(p, kind, t) ==
    /\ Invoke(p)
    /\ Return(p, CASE kind = "tasks" -> Result("resource_tasks", "resource", 0, 0)
                  [] kind = "status" /\ ~fileExists(t) ->
                        Result("TaskNotFound", "resource", t, 0)
                  [] kind = "status" /\ fileExists(t) ->
                        [Result("resource_status", "resource", t, 0)
                            EXCEPT !.doc = readJsonFile(t)]
                  [] OTHER -> Result("resource_timeline", "resource", t, 0))
    /\ UNCHANGED <<registry, torn, global, sessions, started, progressLog, findingsLog,
                   nextTask, deployed, view, nextId, succ, known>>

\* ------------------------------------------------------------- environment
\* the agent process ends and its tmux session with it
SessionExit(s) ==
    /\ s \in sessions
    /\ sessions' = sessions \ {s}
    /\ UNCHANGED <<registry, torn, global, started, progressLog, findingsLog, nextTask, deployed, view, nextId,
                   pc, arg, loc, ret, calls, succ, known>>

\* the task ids a caller passes: the ids create_real_task has returned, and
\* ids of no task
Callable(tasks) == {t \in tasks : t \in known \/ ~fileExists(t)}

\* the parent ids a caller passes: 'orchestrator', the id of an agent that has
\* been generated, or a string that names no agent
Nameable(parents) == {a \in parents : a <= nextId \/ a = UnknownAgent}

\* a handler is invoked with inputs from the given sets
Start(tasks, parents, agents, reports, tmux) ==
    \/ \E p \in Procs : nextTask < Cardinality(tasks) /\ CreateTask(p)
    \/ \E p \in Procs, t \in Callable(tasks), type \in AgentTypes,
          parent \in Nameable(parents), tmuxAvailable \in tmux : DeployStart(p, t, type, parent, tmuxAvailable)
    \/ \E p \in Procs, t \in Callable(tasks), a \in agents : KillStart(p, t, a)
    \/ \E p \in Procs, t \in Callable(tasks), a \in agents, r \in reports :
          UpdateStart(p, t, a, r[1], r[2])
    \/ \E p \in Procs, t \in Callable(tasks) : StatusStart(p, t)
    \/ \E p \in Procs, t \in Callable(tasks), a \in agents : ReportStart(p, t, a)
    \/ \E p \in Procs, t \in Callable(tasks), a \in agents : OutputStart(p, t, a)
    \/ \E p \in Procs, input \in SpawnInputs(Callable(tasks), Nameable(parents)),
          tmuxAvailable \in tmux : SpawnChildStart(p, input, tmuxAvailable)
    \/ \E p \in Procs, kind \in ResourceKinds, t \in Callable(tasks) : ReadResource(p, kind, t)

\* a handler resumes after an await, or a session ends
Continue ==
    \/ \E p \in Procs : CreateInitGlobal(p)
    \/ \E p \in Procs : CreateRegistry(p)
    \/ \E p \in Procs : CreateReadGlobal(p)
    \/ \E p \in Procs : CreateWriteGlobal(p)
    \/ \E p \in Procs, ok \in BOOLEAN : DeploySession(p, ok)
    \/ \E p \in Procs : WriteTruncate(p)
    \/ \E p \in Procs : WriteData(p)
    \/ \E p \in Procs, killed \in BOOLEAN : KillSession(p, killed)
    \/ \E p \in Procs : UpdateRead(p)
    \/ \E p \in Procs : StatusProbe(p)
    \/ \E s \in AgentIds : SessionExit(s)

\* any two concurrent invocations, on any task, with any input
Next ==
    \/ /\ calls < MaxCalls
       /\ Start(TaskIds, {Orchestrator, UnknownAgent} \cup AgentIds, AgentIds, ProgressReports, BOOLEAN)
    \/ Continue

Spec == Init /\ [][Next]_vars

\* longer behaviours: tmux is installed, agents are deployed by the orchestrator
\* or as children of the first agent, kills and progress reports name the first
\* agent, and a progress report says 'running'
NextLong ==
    \/ /\ calls < MaxCallsLong
       /\ Start(TaskIds, {Orchestrator, 1}, {1}, {<<"running", 100>>}, {TRUE})
    \/ Continue

SpecLong == Init /\ [][NextLong]_vars

\* behaviours of MaxCallsReports calls in which the first agent reports that it
\* is 'working'
NextReports ==
    \/ /\ calls < MaxCallsReports
       /\ Start(TaskIds, {Orchestrator}, {1}, {<<"working", 50>>}, {TRUE})
    \/ Continue

SpecReports == Init /\ [][NextReports]_vars

\* the steps of the handler invocation p after its first: each one follows an
\* await of a file or tmux call that settles, and the event loop then resumes
\* the handler
Resume(p) ==
    \/ CreateInitGlobal(p)
    \/ CreateRegistry(p)
    \/ CreateReadGlobal(p)
    \/ CreateWriteGlobal(p)
    \/ \E ok \in BOOLEAN : DeploySession(p, ok)
    \/ WriteTruncate(p)
    \/ WriteData(p)
    \/ \E killed \in BOOLEAN : KillSession(p, killed)
    \/ UpdateRead(p)
    \/ StatusProbe(p)

\* the behaviours of Spec in which no handler is left suspended for ever
SpecFair == Spec /\ \A p \in Procs : WF_vars(Resume(p))

\* ============================================================ ledger text
\* A ledger file is a text: a sequence of characters.  The characters that
\* matter are the line feed, white space, the characters of a message, the
\* brace that opens a JSON object (taken together with the fields other than
\* the message that follow it), the closing brace, and a character x that no
\* JSON text contains.
NoHead == [timestamp |-> 0, agent_id |-> 0]
Ch(c) == [c |-> c, head |-> NoHead]
LF == Ch("LF")

\* an entry: timestamp, agent_id and a message, which may hold line feeds
Entry(ts, a, msg) == [timestamp |-> ts, agent_id |-> a, message |-> msg]
Messages == {<<Ch("c")>>, <<Ch("c"), LF, Ch("c")>>}
Entries == {Entry(ts, 1, msg) : ts \in 1..MaxTime, msg \in Messages}
\* the message is written as it is
EscapeNothing(msg) == msg

\* JSON.stringify of a string writes a line feed as the two characters \n
Escape(msg) == [i \in 1..Len(msg) |-> IF msg[i] = LF THEN Ch("\\n") ELSE msg[i]]
Unescape(chars) == [i \in 1..Len(chars) |-> IF chars[i] = Ch("\\n") THEN LF ELSE chars[i]]

\* JSON.stringify(entry)
Stringify(e) ==
    <<[c |-> "{", head |-> [timestamp |-> e.timestamp, agent_id |-> e.agent_id]]>>
        \o Escape(e.message) \o <<Ch("}")>>

\* JSON.parse(l): the value, or ok = FALSE where JSON.parse throws
JSONParse(l) ==
    IF /\ Len(l) >= 3 /\ l[1].c = "{" /\ l[Len(l)] = Ch("}")
            /\ \A i \in 2..(Len(l) - 1) : l[i] \in {Ch("c"), Ch("\\n")}
    THEN [ok |-> TRUE,
          value |-> Entry(l[1].head.timestamp, l[1].head.agent_id,
                          Unescape(SubSeq(l, 2, Len(l) - 1)))]
    ELSE [ok |-> FALSE, value |-> Entry(0, 0, <<>>)]

\* text.split('\n')
RECURSIVE Split(_)
Split(text) ==
    IF \E i \in 1..Len(text) : text[i] = LF
    THEN LET i == CHOOSE k \in 1..Len(text) :
                      text[k] = LF /\ \A j \in 1..(k - 1) : text[j] # LF
         IN  <<SubSeq(text, 1, i - 1)>> \o Split(SubSeq(text, i + 1, Len(text)))
    ELSE <<text>>

\* line.trim()
RECURSIVE Trim(_)
Trim(line) ==
    IF line = <<>> THEN line
    ELSE IF Head(line) = Ch("sp") THEN Trim(Tail(line))
    ELSE IF line[Len(line)] = Ch("sp") THEN Trim(SubSeq(line, 1, Len(line) - 1))
    ELSE line

\* for (const line of lines) { const l = line.trim(); if (!l) continue;
\*   try { out.push(JSON.parse(l)); } catch {} }
RECURSIVE ParseLines(_)
ParseLines(lines) ==
    IF lines = <<>> THEN <<>>
    ELSE LET l == Trim(Head(lines))
         IN  (IF l # <<>> /\ JSONParse(l).ok THEN <<JSONParse(l).value>> ELSE <<>>)
                 \o ParseLines(Tail(lines))

\* readJsonl(dir, suffix) for a directory that holds this one file
readJsonl(text) == ParseLines(Split(text))

\* String(a.timestamp) as localeCompare orders it: ISO time stamps by their time
TimeKey(e) == e.timestamp

\* one insertion of a stable sort: x goes behind the elements that do not
\* come after it
RECURSIVE InsertOldestFirst(_, _)
InsertOldestFirst(list, x) ==
    IF list # <<>> /\ TimeKey(list[Len(list)]) > TimeKey(x)
    THEN Append(InsertOldestFirst(SubSeq(list, 1, Len(list) - 1), x), list[Len(list)])
    ELSE Append(list, x)

RECURSIVE InsertNewestFirst(_, _)
InsertNewestFirst(list, x) ==
    IF list # <<>> /\ TimeKey(list[Len(list)]) < TimeKey(x)
    THEN Append(InsertNewestFirst(SubSeq(list, 1, Len(list) - 1), x), list[Len(list)])
    ELSE Append(list, x)

\* list.sort((a, b) => String(a.timestamp).localeCompare(String(b.timestamp)))
RECURSIVE SortOldestFirst(_)
SortOldestFirst(list) ==
    IF list = <<>> THEN <<>>
    ELSE InsertOldestFirst(SortOldestFirst(SubSeq(list, 1, Len(list) - 1)), list[Len(list)])

\* the list is left in the order of the files and their lines
KeepFileOrder(list) == list

\* list.sort((a, b) => String(b.timestamp).localeCompare(String(a.timestamp)))
RECURSIVE SortNewestFirst(_)
SortNewestFirst(list) ==
    IF list = <<>> THEN <<>>
    ELSE InsertNewestFirst(SortNewestFirst(SubSeq(list, 1, Len(list) - 1)), list[Len(list)])

\* list.slice(0, n)
Slice(list, n) == SubSeq(list, 1, IF Len(list) < n THEN Len(list) ELSE n)

\* the ledger part of the status payload: readJsonl, sort, slice, lengths
LedgerSnapshot(v) ==
    LET progressEntries == readJsonl(v.progress)
        findingsEntries == readJsonl(v.findings)
    IN  [of |-> "status",
         recent_updates |-> Slice(SortNewestFirst(progressEntries), RecentUpdates),
         recent_findings |-> Slice(SortNewestFirst(findingsEntries), RecentFindings),
         total_progress_entries |-> Len(progressEntries),
         total_findings |-> Len(findingsEntries)]

\* every entry is tagged as a progress entry
TaggedProgress(e, kind) ==
    [timestamp |-> e.timestamp, agent_id |-> e.agent_id, message |-> e.message,
     entry_type |-> "progress"]

\* { ...p, entry_type }: the fields of the entry and its kind
Tagged(e, kind) ==
    [timestamp |-> e.timestamp, agent_id |-> e.agent_id, message |-> e.message,
     entry_type |-> kind]

\* computeTaskTimeline: the two sorted lists, tagged, joined and sorted again
LedgerTimeline(v) ==
    LET allProgress == readJsonl(v.progress)
        allFindings == readJsonl(v.findings)
        sortedProgress == SortOldestFirst(allProgress)
        sortedFindings == SortOldestFirst(allFindings)
        joined == [i \in 1..Len(sortedProgress) |-> Tagged(sortedProgress[i], "progress")]
                      \o [i \in 1..Len(sortedFindings) |-> Tagged(sortedFindings[i], "finding")]
    IN  [of |-> "timeline",
         timeline |-> SortOldestFirst(joined),
         total_progress_entries |-> Len(allProgress),
         total_findings |-> Len(allFindings)]

\* the variables of the handlers, which the ledger views leave alone
handlerVars ==
    <<registry, torn, global, sessions, started, progressLog, findingsLog, nextTask, nextId,
      pc, arg, loc, ret, calls, succ, known, deployed>>

\* number of line feeds in a text
RECURSIVE LineFeeds(_)
LineFeeds(text) ==
    IF text = <<>> THEN 0 ELSE (IF Head(text) = LF THEN 1 ELSE 0) + LineFeeds(Tail(text))

\* fs.appendFileSync(progressFile, JSON.stringify(entry) + '\n')
WriteProgress(e) ==
    /\ LineFeeds(view.progress) + LineFeeds(view.findings) < MaxLines
    /\ view' = [view EXCEPT !.progress = @ \o Stringify(e) \o <<LF>>,
                            !.wroteProgress = Append(@, e)]
    /\ UNCHANGED handlerVars

\* fs.appendFileSync(findingsFile, JSON.stringify(entry) + '\n')
WriteFinding(e) ==
    /\ LineFeeds(view.progress) + LineFeeds(view.findings) < MaxLines
    /\ view' = [view EXCEPT !.findings = @ \o Stringify(e) \o <<LF>>,
                            !.wroteFindings = Append(@, e)]
    /\ UNCHANGED handlerVars

\* lines that JSON.parse rejects or the reader passes over: text that is not
\* JSON, a blank line, an entry cut short
ForeignLines ==
    {<<Ch("x")>>, <<Ch("sp")>>, SubSeq(Stringify(Entry(1, 1, <<Ch("c")>>)), 1, 2)}

\* a malformed line gets into a ledger file (another program, a write cut short)
ForeignWrite(file, line) ==
    /\ LineFeeds(view.progress) + LineFeeds(view.findings) < MaxLines
    /\ view' = IF file = "progress" THEN [view EXCEPT !.progress = @ \o line \o <<LF>>]
               ELSE [view EXCEPT !.findings = @ \o line \o <<LF>>]
    /\ UNCHANGED handlerVars

\* get_real_task_status / computeTaskStatus build the ledger part of the payload
ViewStatus ==
    /\ view' = [view EXCEPT !.out = LedgerSnapshot(view)]
    /\ UNCHANGED handlerVars

\* computeTaskTimeline builds the timeline
ViewTimeline ==
    /\ view' = [view EXCEPT !.out = LedgerTimeline(view)]
    /\ UNCHANGED handlerVars

NextLedger ==
    \/ \E e \in Entries : WriteProgress(e)
    \/ \E e \in Entries : WriteFinding(e)
    \/ \E file \in {"progress", "findings"}, line \in ForeignLines : ForeignWrite(file, line)
    \/ ViewStatus
    \/ ViewTimeline

\* the ledger files of one task, written entry by entry and by other programs,
\* and the views computed from them
SpecLedger == Init /\ [][NextLedger]_vars

\* ================================================================= claims
\* the counters and limits of a task as deploy_headless_agent reads them
ActiveCount(t) == NumOr0(registry[t].active_count)
CompletedCount(t) == NumOr0(registry[t].completed_count)
TotalSpawned(t) == NumOr0(registry[t].total_spawned)
MaxConcurrentOf(t) == NumOrEnv(registry[t].max_concurrent, EnvMaxConcurrent)
MaxAgentsOf(t) == NumOrEnv(registry[t].max_agents, EnvMaxAgents)
MaxDepthOf(t) == NumOrEnv(registry[t].max_depth, EnvMaxDepth)
Tasks == {t \in TaskIds : fileExists(t)}
AgentsOf(t) == {registry[t].agents[i] : i \in 1..Len(registry[t].agents)}
Terminal == {"completed", "terminated"}
AllIdle == \A p \in Procs : pc[p] = "idle"

\* process p finishes the write of its handler op
Finishes(p, op) == pc[p] = "write_data" /\ arg[p].op = op /\ pc'[p] = "idle"

\* C1: in every state, every task registry's active_count is at most the
\* task's max_concurrent.
ActiveCountWithinMaxConcurrent ==
    \A t \in Tasks : ActiveCount(t) <= MaxConcurrentOf(t)

\* C1 witness: a task is at its ceiling and a deploy has just been denied for it
DeniedAtMaxConcurrent ==
    /\ ret.text = "TooManyActive"
    /\ \E t \in Tasks : ActiveCount(t) = MaxConcurrentOf(t) /\ Len(registry[t].agents) > 0

\* C2: for every task the number of deploy_headless_agent calls that returned
\* success never exceeds the task's max_agents.
SuccessfulDeploysWithinMaxAgents ==
    \A t \in Tasks : succ[t] <= MaxAgentsOf(t)

\* sum of active_count over the tasks 1..n
RECURSIVE SumActive(_)
SumActive(n) ==
    IF n = 0 THEN 0
    ELSE (IF fileExists(n) THEN ActiveCount(n) ELSE 0) + SumActive(n - 1)

\* C3: the sum of every task's active_count never exceeds the global
\* registry's max_concurrent_agents.
GlobalActiveWithinCeiling ==
    global # NoFile => SumActive(MaxTasks) <= global.max_concurrent_agents

\* C4: in every step a task's total_spawned grows by 1 if the step is the
\* successful return of a deploy for the task, and is unchanged otherwise.
TotalSpawnedCountsDeploys ==
    [][\A t \in Tasks : TotalSpawned(t)' = TotalSpawned(t) + (succ'[t] - succ[t])]_vars

\* every agent entry of every registry names a session that was started
NoPhantomAgent ==
    \A t \in Tasks : \A a \in AgentsOf(t) : a.tmux_session \in started

\* no step of a deploy that has not started its session, the return on a
\* failed session creation included, changes a registry or a session
FailedSessionLeavesRegistries ==
    [][\A p \in Procs :
          (\/ pc[p] = "idle" /\ pc'[p] = "deploy_session"
           \/ pc[p] = "deploy_session" /\ pc'[p] = "idle")
          => /\ registry' = registry /\ torn' = torn /\ global' = global
             /\ sessions' = sessions
             /\ (pc[p] = "deploy_session" => ret'.text = "SessionCreationFailure")]_vars

ProgressHundredCompletes ==
    [][\A p \in Procs, t \in Tasks, a \in AgentIds :
          LET i == FindAgent(registry[t], a)
          IN  (/\ Finishes(p, "update")
               /\ arg[p].task = t /\ arg[p].agent = a
               /\ arg[p].progress = 100
               /\ i # 0
               /\ registry[t].agents[i].status = "running"
               /\ loc[p] = SetProgress(registry[t], a, arg[p].status, 100))
              => /\ FindAgent(registry'[t], a) = i
                 /\ registry'[t].agents[i].status = "completed"
                 /\ ActiveCount(t)' = ActiveCount(t) - 1
                 /\ CompletedCount(t)' = CompletedCount(t) + 1]_vars

\* C7: when a kill_real_agent call on an agent that is already completed or
\* terminated writes back the registry it has read, active_count and
\* completed_count are what they were.
KillOfTerminalAgentKeepsCounters ==
    [][\A p \in Procs, t \in Tasks, a \in AgentIds :
          LET i == FindAgent(registry[t], a)
          IN  (/\ Finishes(p, "kill")
               /\ arg[p].task = t /\ arg[p].agent = a
               /\ i # 0
               /\ registry[t].agents[i].status \in Terminal
               /\ loc[p] = MarkTerminated(registry[t], a))
              => /\ ActiveCount(t)' = ActiveCount(t)
                 /\ CompletedCount(t)' = CompletedCount(t)]_vars

\* C8: an agent whose status is completed or terminated has the same status
\* after every step in which it stays in the registry.
TerminalStatusIsFinal ==
    [][\A t \in Tasks : \A i \in 1..Len(registry[t].agents) :
          LET a == registry[t].agents[i]
              j == FindAgent(registry'[t], a.id)
          IN  (a.status \in Terminal /\ j # 0) => registry'[t].agents[j].status = a.status]_vars

\* C9: when no handler is running, every task registry holds one agent entry
\* for each deploy that returned success: no write was lost.
NoLostUpdate ==
    AllIdle => \A t \in Tasks : Len(registry[t].agents) = succ[t]

\* C10: no registry records an agent whose depth exceeds the task's max_depth.
DepthWithinMaxDepth ==
    \A t \in Tasks : \A a \in AgentsOf(t) : a.depth <= MaxDepthOf(t)

\* C11: every agent of a registry has parent 'orchestrator' and depth 1, or has
\* as parent the id of another agent of the same registry and that agent's
\* depth + 1; so no deploy that names any other parent is admitted.
ParentIsRootOrRecordedAgent ==
    \A t \in Tasks : \A a \in AgentsOf(t) :
        \/ a.parent = Orchestrator /\ a.depth = 1
        \/ \E b \in AgentsOf(t) : b.id # a.id /\ b.id = a.parent /\ a.depth = b.depth + 1

\* the spawn-rule table of the toolkit: parent type -> the child types it may spawn
SpawnRules ==
    [orchestrator |-> {"investigator", "implementer", "reviewer", "fixer"},
     investigator |-> {"analyzer"}, implementer |-> {"coder", "tester"}, reviewer |-> {},
     fixer |-> {"debugger"}, analyzer |-> {}, coder |-> {}, tester |-> {}, debugger |-> {}]

\* the pair is in the table; a parent type without an entry permits nothing
SpawnPermitted(parentType, childType) ==
    parentType \in DOMAIN SpawnRules /\ childType \in SpawnRules[parentType]

\* C12: every recorded agent whose parent is a recorded agent has a type that
\* the spawn-rule table permits for the parent's type.
ChildTypePermittedBySpawnRules ==
    \A t \in Tasks : \A a, b \in AgentsOf(t) :
        b.id = a.parent => SpawnPermitted(b.type, a.type)

\* the agents of orig that doc has turned from running to completed
Reconciled(orig, doc) ==
    {i \in 1..Len(orig.agents) :
        /\ orig.agents[i].status = "running"
        /\ doc.agents[i] = [orig.agents[i] EXCEPT !.status = "completed"]}

\* doc is orig with some running agents reconciled, nothing else differs in the agents
IsReconciliationOf(orig, doc) ==
    /\ Len(doc.agents) = Len(orig.agents)
    /\ \A i \in 1..Len(orig.agents) : doc.agents[i] = orig.agents[i] \/ i \in Reconciled(orig, doc)

\* C13: a get_real_task_status call turns every running agent it finds without
\* a session into completed; when it writes back the registry it has read,
\* active_count is lower by the number of those agents, completed_count higher
\* by it, and the registry written is the snapshot the call returns.
StatusReconcilesAndPersists ==
    [][\A p \in Procs, t \in Tasks :
          /\ (/\ pc[p] = "status_probe" /\ arg[p].task = t
               /\ loc[p].agents[arg[p].idx].tmux_session \notin sessions
               /\ loc'[p] # loc[p])
              => /\ pc'[p] \in {"status_probe", "write"}
                 /\ loc'[p].agents[arg[p].idx].status = "completed"
          /\ (/\ Finishes(p, "status") /\ arg[p].task = t
               /\ IsReconciliationOf(registry[t], loc[p]))
              => /\ registry'[t] = loc[p]
                 /\ ActiveCount(t)' = ActiveCount(t) - Cardinality(Reconciled(registry[t], loc[p]))
                 /\ CompletedCount(t)' =
                        CompletedCount(t) + Cardinality(Reconciled(registry[t], loc[p]))]_vars

\* number of agents of task t whose status is terminated
TerminatedCount(t) ==
    Cardinality({i \in 1..Len(registry[t].agents) : registry[t].agents[i].status = "terminated"})

\* C14: in every registry active_count + completed_count + the number of
\* terminated agents equals total_spawned.
CountersAddUpToTotalSpawned ==
    \A t \in Tasks : ActiveCount(t) + CompletedCount(t) + TerminatedCount(t) = TotalSpawned(t)

CompletedCountWithinTotalSpawned ==
    \A t \in Tasks : CompletedCount(t) <= TotalSpawned(t)

\* the number of child lists of the hierarchy h in which the id a occurs, each
\* occurrence counted
RECURSIVE Occurrences(_, _, _)
Occurrences(h, parents, a) ==
    IF parents = {} THEN 0
    ELSE LET q == CHOOSE x \in parents : TRUE
         IN  Cardinality({i \in 1..Len(h[q]) : h[q][i] = a}) + Occurrences(h, parents \ {q}, a)

\* C17: every agent id of a registry is in exactly one child list of the
\* registry's agent_hierarchy, the list of the agent's parent.
AgentInChildListOfItsParent ==
    \A t \in Tasks : \A a \in AgentsOf(t) :
        LET h == registry[t].agent_hierarchy
        IN  /\ a.parent \in DOMAIN h
            /\ \E i \in 1..Len(h[a.parent]) : h[a.parent][i] = a.id
            /\ Occurrences(h, DOMAIN h, a.id) = 1

RECURSIVE SumTotalSpawned(_)
SumTotalSpawned(n) ==
    IF n = 0 THEN 0
    ELSE (IF fileExists(n) THEN TotalSpawned(n) ELSE 0) + SumTotalSpawned(n - 1)

\* C18: when no handler is running, the global registry's total_agents_spawned
\* is the sum of the tasks' total_spawned and its active_agents the sum of
\* their active_count.
GlobalCountersAreTaskSums ==
    (AllIdle /\ global # NoFile)
        => /\ global.total_agents_spawned = SumTotalSpawned(MaxTasks)
           /\ global.active_agents = SumActive(MaxTasks)

\* C19: when no handler is running, the global registry's total_tasks is the
\* number of create_real_task calls that returned and every returned task id
\* is a key of its tasks map.
GlobalRegistryHasEveryCreatedTask ==
    (AllIdle /\ global # NoFile)
        => /\ global.total_tasks = Cardinality(known)
           /\ known \subseteq global.tasks

\* C20: no handler is at a call into the session layer (create, probe or kill
\* a session) while it holds registry data it has read and will write back.
NoSessionCallBetweenReadAndWrite ==
    \A p \in Procs :
        pc[p] \in {"deploy_session", "kill_session", "status_probe"} => loc[p] = NoFile


\* a kill of agent a in task t has finished: the handler returned 'terminated'
\* and the registry it wrote records the agent as terminated
KillFinished(t, a) ==
    /\ ret = Result("terminated", "kill", t, a)
    /\ fileExists(t)
    /\ FindAgent(registry[t], a) # 0
    /\ registry[t].agents[FindAgent(registry[t], a)].status = "terminated"

\* C21: a kill_real_agent call that has found its agent in the registry
\* completes: whether the kill of the session succeeds, fails, or the session
\* is already gone, the handler records the agent as terminated, writes the
\* registry and returns 'terminated'.
KillAlwaysCompletesAsTerminated ==
    \A p \in Procs, t \in TaskIds, a \in AgentIds :
        (pc[p] = "kill_session" /\ arg[p].task = t /\ arg[p].agent = a) ~> KillFinished(t, a)

\* the kill has returned 'terminated' although the session of the agent is
\* still there: the kill attempt failed
TerminatedWhileSessionAlive ==
    \E t \in TaskIds, a \in AgentIds : KillFinished(t, a) /\ a \in sessions /\ AllIdle


\* this step is the first step of a deploy_headless_agent call on task t: the
\* call is turned down at once or goes on to start a session
DeployEvaluated(t) ==
    /\ calls' = calls + 1
    /\ \/ pc' = pc /\ ret'.op = "deploy" /\ ret'.task = t
       \/ \E p \in Procs : pc'[p] = "deploy_session" /\ pc[p] = "idle" /\ arg'[p].task = t

\* this step returns the denial with this text
Denied(text) == calls' = calls + 1 /\ pc' = pc /\ ret'.text = text

\* C22: a deploy on an existing task, with tmux available, is denied with
\* 'Too many active agents' exactly when the active_count it reads is at least
\* the max_concurrent it reads, and the denial reports that active_count as
\* the current value and that max_concurrent as the ceiling.
ConcurrencyDenialIffAtCeiling ==
    [][\A t \in TaskIds :
          DeployEvaluated(t) /\ fileExists(t) /\ ~Denied("TmuxUnavailable") =>
              /\ Denied("TooManyActive") <=>
                     NumOr0(readJsonFile(t).active_count) >=
                         NumOrEnv(readJsonFile(t).max_concurrent, EnvMaxConcurrent)
              /\ Denied("TooManyActive") =>
                     /\ ret'.current = NumOr0(readJsonFile(t).active_count)
                     /\ ret'.ceiling =
                            NumOrEnv(readJsonFile(t).max_concurrent, EnvMaxConcurrent)]_vars

\* a deploy was denied with current = ceiling = max_concurrent while the
\* registry holds max_concurrent running agents
DeniedWithCurrentAndCeiling ==
    /\ ret.text = "TooManyActive"
    /\ fileExists(ret.task)
    /\ ret.current = registry[ret.task].active_count
    /\ ret.ceiling = registry[ret.task].max_concurrent
    /\ ret.current = ret.ceiling
    /\ Cardinality({a \in AgentsOf(ret.task) : a.status = "running"}) = ret.current
    /\ AllIdle


\* C23: the task-total check comes before the task-concurrency check: a
\* deploy (tmux available, task existing) that reads total_spawned >=
\* max_agents and active_count >= max_concurrent is denied with the task-total
\* reason.
TaskTotalReportedBeforeTaskConcurrency ==
    [][\A t \in TaskIds :
          /\ DeployEvaluated(t) /\ fileExists(t) /\ ~Denied("TmuxUnavailable")
          /\ NumOr0(readJsonFile(t).total_spawned) >=
                 NumOrEnv(readJsonFile(t).max_agents, EnvMaxAgents)
          /\ NumOr0(readJsonFile(t).active_count) >=
                 NumOrEnv(readJsonFile(t).max_concurrent, EnvMaxConcurrent)
          => Denied("MaxAgentsReached")]_vars


\* C24: a deploy that is denied by an admission check, or that finds tmux
\* missing, starts no session and leaves every task registry file and the
\* global registry as they were.
DeniedDeployChangesNothing ==
    [][\A t \in TaskIds :
          /\ DeployEvaluated(t)
          /\ Denied("TooManyActive") \/ Denied("MaxAgentsReached") \/ Denied("TmuxUnavailable")
          => UNCHANGED <<registry, torn, global, sessions, started>>]_vars

\* a deploy on a fresh task was turned down because tmux is missing: the
\* registry is the one create_real_task wrote and no session was ever started
TmuxMissingOnFreshTask ==
    /\ ret = Result("TmuxUnavailable", "deploy", ret.task, 0)
    /\ ret.task \in Tasks
    /\ registry[ret.task] = InitialDoc
    /\ started = {}
    /\ AllIdle


\* the last call that returned was a get_real_task_status of task t, the
\* registry file is still the document it returned, and every agent it
\* reported as running still has its session
StatusStillCurrent(t) ==
    /\ ret.text = "status" /\ ret.task = t
    /\ fileExists(t) /\ ~torn[t] /\ registry[t] = ret.doc
    /\ \A i \in 1..Len(ret.doc.agents) :
          ret.doc.agents[i].status = "running" => ret.doc.agents[i].tmux_session \in sessions

\* process p runs a get_real_task_status of task t that has read the document
\* the previous call returned and has changed nothing in it
SecondStatusUnchanged(p, t) ==
    /\ pc[p] = "status_probe" /\ arg[p].task = t
    /\ loc[p] = ret.doc /\ ~arg[p].changed

\* C25: a get_real_task_status that follows another one on the same task,
\* with no write to the registry and no session ending in between, returns
\* the same document (counters and agent list) and never reaches the write:
\* an agent that is already completed is not probed again.
RepeatedStatusIsIdentical ==
    [][\A p \in Procs, t \in TaskIds :
          /\ StatusStillCurrent(t) /\ calls' = calls + 1 /\ pc[p] = "idle"
                /\ \/ pc' = pc /\ ret'.op = "status" /\ ret'.task = t
                   \/ pc'[p] = "status_probe" /\ arg'[p].task = t
             => \/ pc' = pc /\ ret' = ret
                \/ SecondStatusUnchanged(p, t)'
          /\ StatusStillCurrent(t) /\ SecondStatusUnchanged(p, t) /\ pc'[p] # pc[p]
             => pc'[p] = "idle" /\ ret' = ret /\ registry' = registry /\ torn' = torn
          /\ StatusStillCurrent(t) /\ SecondStatusUnchanged(p, t) /\ pc'[p] = pc[p]
                /\ StatusStillCurrent(t)' /\ ret' = ret
             => SecondStatusUnchanged(p, t)']_vars

\* a second get_real_task_status is probing the sessions of the document
\* that the first one returned
SecondStatusProbing ==
    \E p \in Procs, t \in TaskIds :
        /\ StatusStillCurrent(t) /\ SecondStatusUnchanged(p, t)
        /\ Len(ret.doc.agents) > 0


\* C26: an update_agent_progress or kill_real_agent call that names an agent
\* whose status is completed or terminated, and that works on the current
\* registry, writes the agent's record back with the progress it had.
TerminalAgentRecordUnchanged ==
    [][\A p \in Procs, t \in Tasks, a \in AgentIds :
          /\ Finishes(p, "update") \/ Finishes(p, "kill")
          /\ arg[p].task = t /\ arg[p].agent = a
          /\ FindAgent(registry[t], a) # 0
          /\ registry[t].agents[FindAgent(registry[t], a)].status \in Terminal
          /\ \/ loc[p] = SetProgress(registry[t], a, arg[p].status, arg[p].progress)
             \/ loc[p] = MarkTerminated(registry[t], a)
          => registry'[t].agents[FindAgent(registry[t], a)].progress =
                 registry[t].agents[FindAgent(registry[t], a)].progress]_vars


\* C27: the status of every recorded agent is running, completed or
\* terminated, and an update_agent_progress with progress below 100 on a
\* running agent, working on the current registry, leaves it running.
StatusStaysInLifecycle ==
    /\ \A t \in Tasks : \A ag \in AgentsOf(t) : ag.status \in {"running", "completed", "terminated"}
    /\ \A p \in Procs, t \in Tasks :
          /\ pc[p] = "write_data" /\ arg[p].op = "update" /\ arg[p].task = t
          /\ arg[p].progress < 100
          /\ FindAgent(registry[t], arg[p].agent) # 0
          /\ registry[t].agents[FindAgent(registry[t], arg[p].agent)].status = "running"
          /\ loc[p] = SetProgress(registry[t], arg[p].agent, arg[p].status, arg[p].progress)
          => loc[p].agents[FindAgent(registry[t], arg[p].agent)].status = "running"


\* this step is the first step of a call, other than create_real_task, that
\* names task t
InvokedOn(t) ==
    /\ calls' = calls + 1
    /\ \/ pc' = pc /\ ret'.op # "resource" /\ ret'.task = t
       \/ \E p \in Procs : pc'[p] # pc[p] /\ arg'[p].op # "create" /\ arg'[p].task = t

\* the step changes no registry file and no ledger file
NoFileTouched == UNCHANGED <<registry, torn, global, progressLog, findingsLog>>

\* C28 as stated: every call that names a task without a registry returns
\* TaskNotFound at once and changes no registry or ledger file.
MissingTaskAlwaysTaskNotFound ==
    [][\A t \in TaskIds :
          InvokedOn(t) /\ ~fileExists(t) =>
              pc' = pc /\ ret'.text = "TaskNotFound" /\ NoFileTouched]_vars

\* C28, amended: every call that names a task without a registry returns at
\* once and changes no registry or ledger file; the result is TaskNotFound,
\* except that a deploy on a host without tmux reports the missing tmux.
MissingTaskTaskNotFoundUnlessTmuxMissing ==
    [][\A t \in TaskIds :
          InvokedOn(t) /\ ~fileExists(t) =>
              /\ pc' = pc
              /\ \/ ret'.text = "TaskNotFound"
                 \/ ret'.op = "deploy" /\ ret'.text = "TmuxUnavailable"
              /\ ret'.op # "deploy" => ret'.text = "TaskNotFound"
              /\ NoFileTouched]_vars

\* a progress report on a task that does not exist was answered with
\* TaskNotFound and there is no ledger line
UpdateOnMissingTaskRefused ==
    /\ ret.text = "TaskNotFound" /\ ret.op = "update"
    /\ ret.task \in TaskIds /\ ~fileExists(ret.task)
    /\ LogSize(MaxTasks) = 0
    /\ AllIdle


\* the operations that take an agent id
AgentOps == {"kill", "output", "update", "report"}

\* this step is the first step of a call that names agent a of task t
InvokedOnAgent(t, a) ==
    /\ calls' = calls + 1
    /\ \/ pc' = pc /\ ret'.op \in AgentOps /\ ret'.task = t /\ ret'.agent = a
       \/ \E p \in Procs : /\ pc'[p] # pc[p] /\ arg'[p].op \in AgentOps
                            /\ arg'[p].task = t /\ arg'[p].agent = a

\* C29: a kill, output, progress or finding call on an existing task, naming
\* an agent id that the task's registry does not hold, returns AgentNotFound
\* at once and changes no registry or ledger file.
UnknownAgentAlwaysAgentNotFound ==
    [][\A t \in TaskIds, a \in AgentIds :
          /\ InvokedOnAgent(t, a)
          /\ fileExists(t) /\ ~torn[t] /\ FindAgent(registry[t], a) = 0
          => pc' = pc /\ ret'.text = "AgentNotFound" /\ NoFileTouched]_vars


\* the file new holds the lines of the file old, in their order, first
KeepsLines(old, new) == Len(old) <= Len(new) /\ SubSeq(new, 1, Len(old)) = old

\* this step starts an update_agent_progress on agent a of the existing task t
UpdateAccepted(t, a) ==
    \E p \in Procs : /\ pc[p] = "idle" /\ pc'[p] = "update_read"
                     /\ arg'[p].task = t /\ arg'[p].agent = a

\* this step is a report_agent_finding on agent a of the existing task t
ReportAccepted(t, a) ==
    /\ calls' = calls + 1 /\ pc' = pc
    /\ ret' = Result("reported", "report", t, a)

\* C30: the ledger is append-only.  Every step keeps the lines of every
\* ledger file in place; an update_agent_progress adds exactly one line, the
\* one it was called with, at the end of the named agent's progress file and
\* a report_agent_finding one line at the end of the agent's findings file,
\* and touches no other file of the ledger; no other step changes the ledger.
LedgerIsAppendOnly ==
    [][/\ \A t \in TaskIds, a \in AgentIds :
             /\ KeepsLines(progressLog[t][a], progressLog'[t][a])
             /\ KeepsLines(findingsLog[t][a], findingsLog'[t][a])
             /\ UpdateAccepted(t, a) =>
                    /\ \E p \in Procs :
                          progressLog' = [progressLog EXCEPT ![t][a] =
                              Append(@, [agent_id |-> a, status |-> arg'[p].status,
                                         progress |-> arg'[p].progress])]
                    /\ findingsLog' = findingsLog
             /\ ReportAccepted(t, a) =>
                    /\ findingsLog' = [findingsLog EXCEPT ![t][a] = Append(@, [agent_id |-> a])]
                    /\ progressLog' = progressLog
       /\ (\A t \in TaskIds, a \in AgentIds : ~UpdateAccepted(t, a) /\ ~ReportAccepted(t, a))
             => UNCHANGED <<progressLog, findingsLog>>]_vars

\* an agent's progress file holds two reports in the order they were made,
\* and its findings file is empty
TwoReportsInOrder ==
    \E t \in Tasks, a \in AgentIds :
        /\ Len(progressLog[t][a]) = 2
        /\ progressLog[t][a][1].progress = 50 /\ progressLog[t][a][2].progress = 100
        /\ findingsLog[t][a] = <<>>
        /\ AllIdle

\* C31: reading a ledger file returns exactly the entries that were appended to
\* it, in the order of their lines and with the content that was written
\* (a message with line feeds included); the malformed lines before, between
\* and after them are passed over and change nothing of that.
LedgerReadReturnsWhatWasWritten ==
    /\ readJsonl(view.progress) = view.wroteProgress
    /\ readJsonl(view.findings) = view.wroteFindings

\* two entries, one with a line feed in its message, around a malformed line,
\* and a status view computed from them
MalformedLineBetweenEntries ==
    /\ Len(view.wroteProgress) = 2
    /\ \E i \in 1..2 : \E j \in 1..Len(view.wroteProgress[i].message) :
           view.wroteProgress[i].message[j] = LF
    /\ LineFeeds(view.progress) = 3
    /\ Trim(Split(view.progress)[2]) = <<>> \/ ~JSONParse(Trim(Split(view.progress)[2])).ok
    /\ view.out.of = "status"
    /\ view.out.total_progress_entries = 2

\* listed is the newest n of the entries written, newest first: it has
\* min(n, number written) elements in non-increasing order of time stamp, each
\* element is an entry that was written (no entry taken twice), and no entry
\* left out is newer than a listed one
NewestFirstOf(listed, written, n) ==
    /\ Len(listed) = (IF Len(written) < n THEN Len(written) ELSE n)
    /\ \A i, j \in 1..Len(listed) : i < j => listed[i].timestamp >= listed[j].timestamp
    /\ \E f \in [1..Len(listed) -> 1..Len(written)] :
           /\ \A i, j \in 1..Len(listed) : i # j => f[i] # f[j]
           /\ \A i \in 1..Len(listed) : written[f[i]] = listed[i]
           /\ \A k \in 1..Len(written) :
                  (\A i \in 1..Len(listed) : f[i] # k)
                      => \A i \in 1..Len(listed) : written[k].timestamp <= listed[i].timestamp

\* a step that computes the status view
StatusViewed == view'.out # view.out /\ view'.out.of = "status"

\* C32: the status snapshot lists the progress entries and the findings newest
\* first, cut to the most recent RecentUpdates and RecentFindings of them; no
\* entry left out is newer than a listed one, and the totals are the numbers
\* of all entries of the ledger.
SnapshotListsNewestFirst ==
    [][StatusViewed =>
          /\ NewestFirstOf(view'.out.recent_updates, view.wroteProgress, RecentUpdates)
          /\ NewestFirstOf(view'.out.recent_findings, view.wroteFindings, RecentFindings)
          /\ view'.out.total_progress_entries = Len(view.wroteProgress)
          /\ view'.out.total_findings = Len(view.wroteFindings)]_vars

\* a snapshot that had to cut: three progress entries, the newest written
\* last, two of them listed
SnapshotCutToNewest ==
    /\ view.out.of = "status"
    /\ Len(view.wroteProgress) = 3
    /\ view.wroteProgress[3].timestamp > view.wroteProgress[1].timestamp
    /\ view.out.total_progress_entries = 3
    /\ Len(view.out.recent_updates) = RecentUpdates
    /\ view.out.recent_updates[1] = view.wroteProgress[3]

\* a step that computes the timeline
TimelineViewed == view'.out # view.out /\ view'.out.of = "timeline"

\* the entries of a tagged list that carry the kind, with the tag taken off
OfKind(tagged, kind) ==
    LET sel == SelectSeq(tagged, LAMBDA x : x.entry_type = kind)
    IN  [i \in 1..Len(sel) |-> Entry(sel[i].timestamp, sel[i].agent_id, sel[i].message)]

\* a and b hold the same entries the same number of times
SameEntries(a, b) ==
    /\ Len(a) = Len(b)
    /\ \E f \in [1..Len(a) -> 1..Len(b)] :
           /\ \A i, j \in 1..Len(a) : i # j => f[i] # f[j]
           /\ \A i \in 1..Len(a) : b[f[i]] = a[i]

\* C33: the timeline holds every progress entry and every finding of the
\* ledger exactly once, each tagged with its kind, in non-decreasing order of
\* time stamp, and its summary counts are the numbers of progress entries and
\* of findings.
TimelineHoldsEveryEntryOnce ==
    [][TimelineViewed =>
          LET t == view'.out.timeline
          IN  /\ \A i \in 1..Len(t) : t[i].entry_type \in {"progress", "finding"}
              /\ SameEntries(OfKind(t, "progress"), view.wroteProgress)
              /\ SameEntries(OfKind(t, "finding"), view.wroteFindings)
              /\ \A i, j \in 1..Len(t) : i < j => t[i].timestamp <= t[j].timestamp
              /\ view'.out.total_progress_entries = Len(view.wroteProgress)
              /\ view'.out.total_findings = Len(view.wroteFindings)]_vars

\* a timeline of a finding and two progress entries, the finding older than a
\* progress entry and therefore ahead of it
TimelineInterleavesKinds ==
    /\ view.out.of = "timeline"
    /\ Len(view.wroteProgress) = 2
    /\ Len(view.wroteFindings) = 1
    /\ Len(view.out.timeline) = 3
    /\ view.out.timeline[1].entry_type = "finding"
    /\ view.out.timeline[2].entry_type = "progress"
    /\ view.out.timeline[1].timestamp < view.out.timeline[2].timestamp

LiveDeployedSessions(t) == {a \in sessions : <<t, a>> \in deployed}

\* C35: for every task, the sessions created by successful deploys and still
\* existing never number more than the task's max_concurrent.
LiveSessionsWithinMaxConcurrent ==
    \A t \in TaskIds :
        fileExists(t) => Cardinality(LiveDeployedSessions(t)) <= EnvMaxConcurrent

\* C37: every session created by a deploy that returned success has, as long
\* as it exists, an agent entry in the task's registry that references it.
DeployedSessionHasRegistryEntry ==
    \A t \in TaskIds : \A a \in LiveDeployedSessions(t) :
        /\ fileExists(t)
        /\ \E i \in 1..Len(registry[t].agents) : registry[t].agents[i].tmux_session = a

\* number of agents of the registry of t whose status is running
RunningAgents(t) ==
    Cardinality({i \in 1..Len(registry[t].agents) : registry[t].agents[i].status = "running"})

\* C38: in every state, active_count of a registry is the number of its
\* agents whose status is running.
ActiveCountIsNumberOfRunningAgents ==
    \A t \in TaskIds : fileExists(t) => ActiveCount(t) = RunningAgents(t)

\* C39: a deploy or a progress update that could not parse the registry file
\* does not go on: no such handler holds a document built from the empty
\* fallback (one without the limits every registry is created with), and no
\* registry file is replaced by such a document.
RegistryNeverBuiltFromFallback ==
    /\ \A p \in Procs :
           (pc[p] \in {"deploy_session", "write", "write_data"} /\ arg[p].op \in {"deploy", "update"})
               => loc[p].max_agents # Absent
    /\ \A t \in TaskIds : fileExists(t) => registry[t].max_agents # Absent

\* the second half of C39 alone: a registry file replaced by a document built
\* from the fallback
RegistryReplacedByFallbackDocument ==
    \E t \in TaskIds : fileExists(t) /\ ~torn[t] /\ registry[t].max_agents = Absent

\* this step is a whole call of the tool or resource read op
CallOf(op) == calls' = calls + 1 /\ pc' = pc /\ ret'.op = op

\* C40: get_agent_output and the resource reads (task list, task status, task
\* timeline) change no task registry, not the global registry and no ledger
\* file; report_agent_finding, with the coordination snapshot it returns,
\* changes no task registry and not the global registry.
ReadOnlyOperationsWriteNothing ==
    [][/\ CallOf("output") \/ CallOf("resource")
           => UNCHANGED <<registry, torn, global, progressLog, findingsLog>>
       /\ CallOf("report") => UNCHANGED <<registry, torn, global>>]_vars

\* the status resource was read for a task that has a running agent whose
\* session is gone: the registry still says running
ResourceReadLeftStaleAgent ==
    /\ ret.op = "resource"
    /\ ret.text = "resource_status"
    /\ fileExists(ret.task)
    /\ ~torn[ret.task]
    /\ ret.doc = registry[ret.task]
    /\ \E i \in 1..Len(ret.doc.agents) :
           /\ ret.doc.agents[i].status = "running"
           /\ ret.doc.agents[i].tmux_session \notin sessions

\* this step completes a get_real_task_status call on task t; gone is the set
\* of sessions that had ended when the call began
StatusCompleted(t, gone) ==
    \/ /\ calls' = calls + 1 /\ pc' = pc
       /\ ret'.op = "status" /\ ret'.text = "status" /\ ret'.task = t
       /\ gone = started \ sessions
    \/ \E p \in Procs :
          /\ pc[p] # "idle" /\ pc'[p] = "idle"
          /\ arg[p].op = "status" /\ arg[p].task = t
          /\ gone = arg[p].gone

\* C36: when a get_real_task_status call completes, every agent of the task
\* whose session had ended before the call began is completed or terminated
\* in the registry, and active_count counts no such agent, whatever the agent
\* had reported.
EndedSessionsAreTerminalAfterStatus ==
    [][\A t \in TaskIds : \A gone \in SUBSET AgentIds :
          StatusCompleted(t, gone) =>
              /\ fileExists(t)'
              /\ \A i \in 1..Len(registry'[t].agents) :
                     registry'[t].agents[i].tmux_session \in gone
                         => registry'[t].agents[i].status \in Terminal
              /\ NumOr0(registry'[t].active_count)
                     <= Cardinality({i \in 1..Len(registry'[t].agents) :
                                       registry'[t].agents[i].tmux_session \notin gone})]_vars

\* no handler is running, the last call was a get_real_task_status that
\* returned the registry as it is, and the registry holds an agent whose
\* session is gone, with the status 'working' it reported and still counted
WorkingAgentStillActiveAfterStatus ==
    /\ \A p \in Procs : pc[p] = "idle"
    /\ ret.op = "status" /\ ret.text = "status"
    /\ fileExists(ret.task) /\ ~torn[ret.task]
    /\ ret.doc = registry[ret.task]
    /\ Len(ret.doc.agents) = 1
    /\ ret.doc.agents[1].status = "working"
    /\ ret.doc.agents[1].tmux_session \notin sessions
    /\ ret.doc.active_count = 1
====
